---------------------------- MODULE Spec2Model ----------------------------
(***************************************************************************)
(* Model of src/project_context.py: ProjectContextManager and the command  *)
(* line front end main().                                                  *)
(*                                                                         *)
(* The state is the content of the project root: PROJECT_CONTEXT.json,     *)
(* SESSIONS.jsonl, AI_HANDOFF.md, the archive directory with INDEX.jsonl,  *)
(* the per-domain archive files and the full-context snapshots, plus the   *)
(* wall clock and what the last command returned or printed.               *)
(*                                                                         *)
(* Conventions                                                             *)
(*   - a file that holds one JSON value is a sequence: <<>> when the file  *)
(*     does not exist, <<v>> when it holds v;                              *)
(*   - a .jsonl file is the sequence of its lines (<<>> when absent);      *)
(*   - a Python dict whose iteration order the code relies on              *)
(*     (working_memory.domains) is a sequence of [name, data] pairs in     *)
(*     insertion order; a domain record is a function from keys to values; *)
(*   - the clock is read at day granularity: datetime.now().isoformat()    *)
(*     is represented by its date, as are isoformat()[:10] and             *)
(*     strftime('%Y%m%d');                                                 *)
(*   - None is 0 for last_session (session numbers start at 1);            *)
(*   - size_kb, a float rounded to two decimals, is kept in hundredths of  *)
(*     a KB; the default document's integer 0 is 0.                        *)
(***************************************************************************)
EXTENDS Integers, Sequences, FiniteSets, TLC

VARIABLES
    context_file,    \* PROJECT_CONTEXT.json: <<>> or <<document>>
    sessions_file,   \* SESSIONS.jsonl: sequence of session entries
    handoff_file,    \* AI_HANDOFF.md: <<>> or <<rendered fields>>
    archive_dir,     \* archive/ exists
    archive_index,   \* archive/INDEX.jsonl: sequence of index entries
    domain_archive,  \* archive/domain_<name>_<date>.json: file name -> content
    full_archive,    \* archive/full_context_session_<N>.json: N -> document
    now,             \* the wall clock (a day number)
    commands,        \* how many commands have run
    result,          \* the last command, its arguments and what it returned
    process,         \* the commands under way, one per process, step by step
    raced            \* some command began while another was under way

vars == <<context_file, sessions_file, handoff_file, archive_dir, archive_index,
          domain_archive, full_archive, now, commands, result, process, raced>>

-----------------------------------------------------------------------------
(* Bounds of the model *)

\* days the clock can reach: 0 .. MaxDay
MaxDay == 1
\* commands run against the project root
MaxCommands == 3
\* byte length of the long string "BIG" given as a deliverable: one of them
\* takes the document past 80% of the 100 KB limit, two take it past the limit
BigLen == 85000

\* domain names given on the command line
Names == {"a", "b"}

\* the updates maps handed to update_domain
Updates ==
    { <<>>,
      [status |-> "inactive"],
      [status |-> "archived"],
      [files_created |-> <<"BIG">>] }

-----------------------------------------------------------------------------
(* Python dict with insertion order: a sequence of [name, data] pairs *)

Keys(d) == { d[i].name : i \in DOMAIN d }

Has(d, k) == k \in Keys(d)

Get(d, k) == d[CHOOSE i \in DOMAIN d : d[i].name = k].data

\* d[k] = v: an existing key keeps its place, a new key goes last
Put(d, k, v) ==
    IF Has(d, k)
    THEN [i \in DOMAIN d |-> IF d[i].name = k THEN [name |-> k, data |-> v] ELSE d[i]]
    ELSE Append(d, [name |-> k, data |-> v])

\* dict.update(updates): matching keys replaced, new keys added
DictUpdate(record, updates) == updates @@ record

\* dict.get(key) on a domain record: the value, or None (here "")
StatusOf(record) == IF "status" \in DOMAIN record THEN record.status ELSE ""

-----------------------------------------------------------------------------
(* json.dumps(context): the byte length of the serialized document *)

\* len(s.encode('utf-8')) of the strings the model uses
StrLen(s) ==
    CASE s = ""         -> 0
      [] s = "a"        -> 1
      [] s = "b"        -> 1
      [] s = "active"   -> 6
      [] s = "inactive" -> 8
      [] s = "archived" -> 8
      [] s = "BIG"      -> BigLen

\* len(str(n)) of a non-negative integer
RECURSIVE Digits(_)
Digits(n) == IF n < 10 THEN 1 ELSE 1 + Digits(n \div 10)

\* a JSON list of strings: [] or ["x", "y"]
RECURSIVE ListItemsLen(_)
ListItemsLen(l) ==
    IF l = <<>> THEN 0 ELSE StrLen(Head(l)) + 2 + ListItemsLen(Tail(l))

ListLen(l) == 2 + ListItemsLen(l) + (IF Len(l) > 1 THEN 2 * (Len(l) - 1) ELSE 0)

\* "domain_<name>_<YYYYMMDD>.json"
ArchiveFileNameLen(file) == 7 + StrLen(file.name) + 1 + 8 + 5

\* the JSON text of the value stored under a key of a domain record
ValueLen(key, value) ==
    CASE key = "status"        -> StrLen(value) + 2
      [] key = "priority"      -> Digits(value)
      [] key = "archived_date" -> 26 + 2
      [] key = "archive_file"  -> ArchiveFileNameLen(value) + 2
      [] OTHER                 -> ListLen(value)

\* "key": value for every key of the record, without the separators
RECURSIVE MembersLen(_, _)
MembersLen(record, keys) ==
    IF keys = {} THEN 0
    ELSE LET k == CHOOSE x \in keys : TRUE
         IN  Len(k) + 2 + 2 + ValueLen(k, record[k]) + MembersLen(record, keys \ {k})

\* {"k1": v1, "k2": v2}
RecordLen(record) ==
    LET n == Cardinality(DOMAIN record)
    IN  2 + MembersLen(record, DOMAIN record) + (IF n > 1 THEN 2 * (n - 1) ELSE 0)

RECURSIVE DomainItemsLen(_)
DomainItemsLen(d) ==
    IF d = <<>> THEN 0
    ELSE StrLen(Head(d).name) + 2 + 2 + RecordLen(Head(d).data) + DomainItemsLen(Tail(d))

\* working_memory.domains
DomainsLen(d) == 2 + DomainItemsLen(d) + (IF Len(d) > 1 THEN 2 * (Len(d) - 1) ELSE 0)

\* repr of size_kb: the default's 0, or a float with one or two decimals
SizeKbLen(h) ==
    IF h = 0 THEN 1
    ELSE Digits(h \div 100) + (IF h % 10 = 0 THEN 2 ELSE 3)

\* json.dumps of the parts of the document that never vary: the keys, the
\* project block with a 10 character start_date, last_reset, ai_instructions
SkeletonLen == 591

JsonLen(context) ==
    SkeletonLen
    + StrLen(context.working_memory.active_domain)
    + Digits(context.working_memory.session_count)
    + (IF context.working_memory.last_session = 0 THEN 4
       ELSE Digits(context.working_memory.last_session))
    + DomainsLen(context.working_memory.domains)
    + SizeKbLen(context.context_health.size_kb)
    + Digits(context.context_health.size_limit_kb)
    + Digits(context.context_health.sessions_since_reset)
    + (IF context.context_health.compression_enabled THEN 4 ELSE 5)

-----------------------------------------------------------------------------
(* The project root as one value, so that a method that calls another     *)
(* (compress_context -> archive_domain, reset_context) composes.           *)

Disk ==
    [ context_file   |-> context_file,
      sessions_file  |-> sessions_file,
      handoff_file   |-> handoff_file,
      archive_dir    |-> archive_dir,
      archive_index  |-> archive_index,
      domain_archive |-> domain_archive,
      full_archive   |-> full_archive ]

\* AppendLine with the write lost
AppendLine_lost(file, line) == file

\* with open(file, 'a') as f: f.write(line + '\n')
AppendLine(file, line) == Append(file, line)

\* with open(archive_dir / name, 'w') as f: json.dump(content, f)
WriteFile(dir, name, content) == (name :> content) @@ dir

\* __init__: archive_dir.mkdir(exist_ok=True)
Manager(fs) == [fs EXCEPT !.archive_dir = TRUE]

create_default_context ==
    [ project |-> [ start_date |-> now ],
      working_memory |->
          [ active_domain |-> "",
            session_count |-> 0,
            last_session  |-> 0,
            domains       |-> <<>> ],
      context_health |->
          [ size_kb              |-> 0,
            size_limit_kb        |-> 100,
            sessions_since_reset |-> 0,
            last_reset           |-> now,
            compression_enabled  |-> FALSE ] ]

load_context(fs) ==
    IF fs.context_file = <<>> THEN create_default_context ELSE fs.context_file[1]

save_context(fs, context) == [fs EXCEPT !.context_file = <<context>>]

\* round(bytes / 1024, 2) in hundredths: the quotient is exact in binary
\* floating point, so a tie is a true tie and rounds to the even neighbour
RoundKb(bytes) ==
    LET q == (bytes * 100) \div 1024
        r == (bytes * 100) % 1024
    IN  IF r > 512 \/ (r = 512 /\ q % 2 = 1) THEN q + 1 ELSE q

\* size > size_limit_kb * 0.8, with size = bytes / 1024
ApproachingLimit(bytes, size_limit_kb) == bytes * 10 > size_limit_kb * 8 * 1024

\* _update_context_size: size_kb is set first, from the document as it stands
update_context_size(context) ==
    LET bytes  == JsonLen(context)
        sized  == [context EXCEPT !.context_health.size_kb = RoundKb(bytes)]
    IN  IF ApproachingLimit(bytes, sized.context_health.size_limit_kb)
        THEN [sized EXCEPT !.context_health.compression_enabled = TRUE]
        ELSE sized

\* NextSessionNum without the increment
NextSessionNum_stale(context) == context.working_memory.session_count

\* context["working_memory"]["session_count"] += 1; session_num = ...
NextSessionNum(context) == context.working_memory.session_count + 1

\* add_session: the new disk and the returned session number
add_session(fs, domain, deliverables, tokens_in, tokens_out, ai_model) ==
    LET context     == load_context(fs)
        session_num == NextSessionNum(context)
        session     == [ session      |-> session_num,
                         date         |-> now,
                         domain       |-> domain,
                         tokens_in    |-> tokens_in,
                         tokens_out   |-> tokens_out,
                         deliverables |-> deliverables,
                         ai_model     |-> ai_model ]
        logged      == [fs EXCEPT !.sessions_file = AppendLine(@, session)]
        counted     == [context EXCEPT
                           !.working_memory.session_count = session_num,
                           !.working_memory.last_session = session_num,
                           !.context_health.sessions_since_reset = @ + 1]
    IN  [ fs  |-> save_context(logged, update_context_size(counted)),
          ret |-> session_num ]

\* the record a domain gets on its first update
DefaultDomain ==
    [ status         |-> "active",
      priority       |-> 1,
      critical_facts |-> <<>>,
      constraints    |-> <<>>,
      decisions_made |-> <<>>,
      files_created  |-> <<>> ]

update_domain(fs, domain_name, updates) ==
    LET context == load_context(fs)
        domains == context.working_memory.domains
        created == IF Has(domains, domain_name) THEN domains
                   ELSE Put(domains, domain_name, DefaultDomain)
        merged  == Put(created, domain_name,
                       DictUpdate(Get(created, domain_name), updates))
    IN  save_context(fs, [context EXCEPT
                             !.working_memory.domains = merged,
                             !.working_memory.active_domain = domain_name])

\* archive_dir / f"domain_{domain_name}_{now:%Y%m%d}.json"
ArchiveFileName(domain_name) == [name |-> domain_name, date |-> now]

\* ArchiveEntry taken after the record's status was overwritten
ArchiveEntry_marked(domain_name, domain_data) ==
    [ domain |-> domain_name, archived_date |-> now,
      data |-> [domain_data EXCEPT !.status = "archived"] ]

\* the content of the archive file
ArchiveEntry(domain_name, domain_data) ==
    [ domain |-> domain_name, archived_date |-> now, data |-> domain_data ]

\* the line appended to INDEX.jsonl
IndexEntry(domain_name, archive_file) ==
    [ type |-> "domain", name |-> domain_name, date |-> now, file |-> archive_file ]

\* the live record that replaces the archived domain's
CollapsedRecord(archive_file) ==
    [ status |-> "archived", archived_date |-> now, archive_file |-> archive_file ]

archive_domain(fs, domain_name) ==
    LET context == load_context(fs)
        domains == context.working_memory.domains
    IN  IF Has(domains, domain_name)
        THEN LET domain_data  == Get(domains, domain_name)
                 archive_file == ArchiveFileName(domain_name)
                 archived     == [fs EXCEPT
                     !.domain_archive =
                         WriteFile(@, archive_file, ArchiveEntry(domain_name, domain_data)),
                     !.archive_index =
                         AppendLine(@, IndexEntry(domain_name, archive_file))]
             IN  save_context(archived, [context EXCEPT
                     !.working_memory.domains =
                         Put(domains, domain_name, CollapsedRecord(archive_file))])
        ELSE fs

\* FreshContext carrying the whole domain map over with the active domain
FreshContext_keepsAll(context, preserve_active) ==
    LET session_num == context.working_memory.session_count
        active      == context.working_memory.active_domain
        carried     == [create_default_context EXCEPT
                           !.project = context.project,
                           !.working_memory.session_count = session_num]
    IN  IF preserve_active /\ active # "" /\ Has(context.working_memory.domains, active)
        THEN [carried EXCEPT
                 !.working_memory.domains = context.working_memory.domains,
                 !.working_memory.active_domain = active]
        ELSE carried

\* FreshContext preserving the active domain whatever preserve_active says
FreshContext_alwaysPreserves(context, preserve_active) ==
    LET session_num == context.working_memory.session_count
        active      == context.working_memory.active_domain
        carried     == [create_default_context EXCEPT
                           !.project = context.project,
                           !.working_memory.session_count = session_num]
    IN  IF active # "" /\ Has(context.working_memory.domains, active)
        THEN [carried EXCEPT
                 !.working_memory.domains =
                     Put(<<>>, active, Get(context.working_memory.domains, active)),
                 !.working_memory.active_domain = active]
        ELSE carried

\* FreshContext with the pointer carried over even when the record is not
FreshContext_keepsPointer(context, preserve_active) ==
    LET session_num == context.working_memory.session_count
        active      == context.working_memory.active_domain
        carried     == [create_default_context EXCEPT
                           !.project = context.project,
                           !.working_memory.session_count = session_num,
                           !.working_memory.active_domain = active]
    IN  IF preserve_active /\ active # "" /\ Has(context.working_memory.domains, active)
        THEN [carried EXCEPT
                 !.working_memory.domains =
                     Put(<<>>, active, Get(context.working_memory.domains, active))]
        ELSE carried

\* the new document reset_context builds from the one it loaded
FreshContext(context, preserve_active) ==
    LET session_num == context.working_memory.session_count
        active      == context.working_memory.active_domain
        carried     == [create_default_context EXCEPT
                           !.project = context.project,
                           !.working_memory.session_count = session_num]
    IN  IF preserve_active /\ active # "" /\ Has(context.working_memory.domains, active)
        THEN [carried EXCEPT
                 !.working_memory.domains =
                     Put(<<>>, active, Get(context.working_memory.domains, active)),
                 !.working_memory.active_domain = active]
        ELSE carried

reset_context(fs, preserve_active) ==
    LET context     == load_context(fs)
        session_num == context.working_memory.session_count
        snapshot    == [fs EXCEPT !.full_archive = WriteFile(@, session_num, context)]
    IN  save_context(snapshot, FreshContext(context, preserve_active))

\* ShouldArchive with the active domain spared in both branches
ShouldArchive_sparesActive(domain_name, domain_data, context, aggressive) ==
    /\ domain_name # context.working_memory.active_domain
    /\ (StatusOf(domain_data) = "inactive" \/ aggressive)

\* ShouldArchive with nothing spared by an aggressive pass
ShouldArchive_everything(domain_name, domain_data, context, aggressive) ==
    \/ StatusOf(domain_data) = "inactive"
    \/ aggressive

\* the test of the loop of compress_context, on the document loaded at its start
ShouldArchive(domain_name, domain_data, context, aggressive) ==
    \/ StatusOf(domain_data) = "inactive"
    \/ aggressive /\ domain_name # context.working_memory.active_domain

\* for domain_name, domain_data in list(domains.items()): ...
RECURSIVE CompressLoop(_, _, _, _)
CompressLoop(fs, items, context, aggressive) ==
    IF items = <<>> THEN fs
    ELSE LET item == Head(items)
             next == IF ShouldArchive(item.name, item.data, context, aggressive)
                     THEN archive_domain(fs, item.name)
                     ELSE fs
         IN  CompressLoop(next, Tail(items), context, aggressive)

\* size_kb > size_limit_kb, on the document loaded at the start
OverLimit(context) ==
    context.context_health.size_kb > context.context_health.size_limit_kb * 100

compress_context(fs, aggressive) ==
    LET context == load_context(fs)
        swept   == CompressLoop(fs, context.working_memory.domains, context, aggressive)
        sized   == update_context_size(context)
    IN  IF OverLimit(sized) /\ aggressive
        THEN reset_context(swept, TRUE)
        ELSE swept

\* the sizes compress_context prints in its "exceeds limit" warning: the
\* size_kb it computed, or nothing when it did not warn
compress_warning(fs) ==
    LET sized == update_context_size(load_context(fs))
    IN  IF OverLimit(sized) THEN <<sized.context_health.size_kb>> ELSE <<>>

\* the fields the hand-off template is filled with
update_handoff(fs, next_task, decisions, active_files) ==
    LET context == load_context(fs)
        active  == context.working_memory.active_domain
        domains == context.working_memory.domains
        constraints ==
            IF active # "" /\ Has(domains, active)
                 /\ "constraints" \in DOMAIN Get(domains, active)
            THEN Get(domains, active).constraints
            ELSE <<>>
    IN  [fs EXCEPT !.handoff_file =
            << [ session      |-> context.working_memory.session_count,
                 date         |-> now,
                 focus        |-> active,
                 next_task    |-> next_task,
                 decisions    |-> decisions,
                 active_files |-> active_files,
                 constraints  |-> constraints ] >>]

RECURSIVE SumField(_, _)
SumField(lines, field) ==
    IF lines = <<>> THEN 0 ELSE Head(lines)[field] + SumField(Tail(lines), field)

\* get_statistics: total_sessions, active_domains, context_size_kb and the
\* token totals (efficiency_ratio is their quotient, 0 when tokens_in is 0)
get_statistics(fs) ==
    LET context == load_context(fs)
        domains == context.working_memory.domains
    IN  << Len(fs.sessions_file),
           Cardinality({ i \in DOMAIN domains : StatusOf(domains[i].data) = "active" }),
           context.context_health.size_kb,
           SumField(fs.sessions_file, "tokens_in"),
           SumField(fs.sessions_file, "tokens_out") >>

-----------------------------------------------------------------------------
(* main(): one action per command *)

Commit(fs) ==
    /\ context_file'   = fs.context_file
    /\ sessions_file'  = fs.sessions_file
    /\ handoff_file'   = fs.handoff_file
    /\ archive_dir'    = fs.archive_dir
    /\ archive_index'  = fs.archive_index
    /\ domain_archive' = fs.domain_archive
    /\ full_archive'   = fs.full_archive
    /\ commands < MaxCommands
    /\ commands' = commands + 1
    /\ UNCHANGED <<now, process, raced>>

Returned(command, domain, flag, value) ==
    result' = [command |-> command, domain |-> domain, flag |-> flag, value |-> value]

\* the processes that can run a command against the project root
Procs == {1, 2}

\* a process with no command under way
Idle == [command |-> "", domain |-> "", updates |-> <<>>, flag |-> FALSE,
         pc |-> 0, seen |-> <<>>]

Init ==
    /\ context_file   = <<>>
    /\ sessions_file  = <<>>
    /\ handoff_file   = <<>>
    /\ archive_dir    = FALSE
    /\ archive_index  = <<>>
    /\ domain_archive = <<>>
    /\ full_archive   = <<>>
    /\ now            = 0
    /\ commands       = 0
    /\ result         = [command |-> "", domain |-> "", flag |-> FALSE, value |-> <<>>]
    /\ process        = [p \in Procs |-> Idle]
    /\ raced          = FALSE

InitCmd ==
    /\ Commit(save_context(Manager(Disk), create_default_context))
    /\ Returned("init", "", FALSE, <<>>)

StatusCmd ==
    /\ Commit(Manager(Disk))
    /\ Returned("status", "", FALSE, <<>>)

SessionCmd ==
    \E domain \in Names, tokens_in \in {1000} :
        /\ LET r == add_session(Manager(Disk), domain, <<>>, tokens_in, 500, "claude")
           IN  /\ Commit(r.fs)
               /\ Returned("session", domain, FALSE, <<r.ret>>)

DomainCmd ==
    \E domain \in Names, updates \in Updates :
        /\ Commit(update_domain(Manager(Disk), domain, updates))
        /\ Returned("domain", domain, FALSE, <<>>)

ArchiveCmd ==
    \E domain \in Names :
        LET fs == archive_domain(Manager(Disk), domain)
        IN  /\ Commit(fs)
            /\ Returned("archive", domain, FALSE, <<>>)

CompressCmd ==
    \E aggressive \in BOOLEAN :
        LET fs == compress_context(Manager(Disk), aggressive)
        IN  /\ Commit(fs)
            /\ Returned("compress", "", aggressive, compress_warning(Manager(Disk)))

ResetCmd ==
    \E preserve_active \in BOOLEAN :
        /\ Commit(reset_context(Manager(Disk), preserve_active))
        /\ Returned("reset", "", preserve_active, <<>>)

HandoffCmd ==
    /\ Commit(update_handoff(Manager(Disk), "t", <<>>, <<>>))
    /\ Returned("handoff", "", FALSE, <<>>)

StatsCmd ==
    /\ Commit(Manager(Disk))
    /\ Returned("stats", "", FALSE, get_statistics(Disk))

\* a day passes between two commands
Tick ==
    /\ now < MaxDay
    /\ now' = now + 1
    /\ UNCHANGED <<context_file, sessions_file, handoff_file, archive_dir,
                   archive_index, domain_archive, full_archive, commands, result,
                   process, raced>>

Next ==
    \/ SessionCmd
    \/ DomainCmd
    \/ ArchiveCmd
    \/ CompressCmd
    \/ ResetCmd
    \/ HandoffCmd
    \/ StatsCmd
    \/ StatusCmd
    \/ InitCmd
    \/ Tick

Spec == Init /\ [][Next]_vars

-----------------------------------------------------------------------------
(* main() given a command without its required argument *)

\* the commands that test for an argument before they call the manager
NeedsArgument == {"session", "domain", "archive", "handoff"}

\* manager = ProjectContextManager(); if not args.domain: print(...); return
\* (for handoff: if not args.next_task). The result names the command that
\* reported the error.
MissingArgumentCmd ==
    \E command \in NeedsArgument :
        /\ Commit(Manager(Disk))
        /\ Returned("error", command, FALSE, <<>>)

NextOrMissingArgument ==
    \/ Next
    \/ MissingArgumentCmd

SpecMissingArgument == Init /\ [][NextOrMissingArgument]_vars

-----------------------------------------------------------------------------
(* The mutating methods one file operation at a time. A command starts by
   building the manager and loading the document; everything it will write
   follows from that copy, and the writes then reach the disk one by one, in
   the order of the source. While PROJECT_CONTEXT.json is being rewritten it
   holds no document: open(..., 'w') empties it and json.dump fills it
   piece by piece. *)

\* PROJECT_CONTEXT.json after open(self.context_file, 'w') and before the
\* first byte of json.dump
Truncated == <<[torn |-> "empty"]>>

\* PROJECT_CONTEXT.json while json.dump is writing
HalfWritten == <<[torn |-> "partial"]>>

\* the file holds a whole JSON document, or does not exist
Intact(file) == file = <<>> \/ "working_memory" \in DOMAIN file[1]

\* save_context: open(..., 'w'); json.dump(...); leaving the with block
SaveSteps == <<"open", "dump", "close">>

\* add_session: the log line is appended, then the document is saved
SessionSteps_unsaved == <<"append_log">>

SessionSteps == <<"append_log">> \o SaveSteps

\* update_domain writes nothing but the document
DomainSteps == SaveSteps

\* archive_domain with the document saved first
ArchiveSteps_saveFirst == SaveSteps \o <<"write_archive", "append_index">>

\* archive_domain: archive file, index line, then the collapsed document
ArchiveSteps == <<"write_archive", "append_index">> \o SaveSteps

\* reset_context: the snapshot, then the fresh document
ResetSteps == <<"write_snapshot">> \o SaveSteps

\* the disk as the method sees it: the files of now, the document it loaded
Seen(p) == [Disk EXCEPT !.context_file = process[p].seen]

\* what the method of process p writes, given the document it loaded
Planned(p) ==
    LET c == process[p]
    IN  CASE c.command = "session" ->
                 add_session(Seen(p), c.domain, <<>>, 1000, 500, "claude").fs
          [] c.command = "domain"  -> update_domain(Seen(p), c.domain, c.updates)
          [] c.command = "archive" -> archive_domain(Seen(p), c.domain)
          [] c.command = "reset"   -> reset_context(Seen(p), c.flag)

\* the file operations of a command, in order; archive_domain of a name the
\* loaded document does not have performs none
Program(c) ==
    CASE c.command = "session" -> SessionSteps
      [] c.command = "domain"  -> DomainSteps
      [] c.command = "archive" ->
             IF Has(load_context([Disk EXCEPT !.context_file = c.seen]).working_memory.domains,
                    c.domain)
             THEN ArchiveSteps
             ELSE <<>>
      [] c.command = "reset"   -> ResetSteps

StepFrame == UNCHANGED <<handoff_file, now>>

\* manager = ProjectContextManager(); context = self.load_context().
\* json.load raises on a file that holds no whole document.
Begin(p, command, domain, updates, flag) ==
    LET c == [command |-> command, domain |-> domain, updates |-> updates,
              flag |-> flag, pc |-> 1, seen |-> context_file]
    IN  /\ process[p].pc = 0
        /\ commands < MaxCommands
        /\ commands' = commands + 1
        /\ archive_dir' = TRUE
        /\ raced' = (raced \/ \E q \in Procs \ {p} : process[q].pc # 0)
        /\ IF ~Intact(context_file)
           THEN /\ Returned("exception", command, FALSE, <<>>)
                /\ UNCHANGED process
           ELSE /\ Returned(command, domain, flag, <<>>)
                /\ process' = [process EXCEPT
                                   ![p] = IF Program(c) = <<>> THEN Idle ELSE c]
        /\ UNCHANGED <<context_file, sessions_file, archive_index,
                       domain_archive, full_archive>>
        /\ StepFrame

\* the next file operation of the command of process p
Step(p) ==
    LET c    == process[p]
        kind == Program(c)[c.pc]
        plan == Planned(p)
    IN  /\ c.pc # 0
        /\ context_file' =
               CASE kind = "open"  -> Truncated
                 [] kind = "dump"  -> HalfWritten
                 [] kind = "close" -> plan.context_file
                 [] OTHER          -> context_file
        /\ sessions_file'  = IF kind = "append_log" THEN plan.sessions_file ELSE sessions_file
        /\ domain_archive' = IF kind = "write_archive" THEN plan.domain_archive ELSE domain_archive
        /\ archive_index'  = IF kind = "append_index" THEN plan.archive_index ELSE archive_index
        /\ full_archive'   = IF kind = "write_snapshot" THEN plan.full_archive ELSE full_archive
        /\ process' = [process EXCEPT
                           ![p] = IF c.pc = Len(Program(c)) THEN Idle
                                  ELSE [c EXCEPT !.pc = c.pc + 1]]
        /\ UNCHANGED <<archive_dir, commands, result, raced>>
        /\ StepFrame

\* the next file operation raises instead (disk full, a value json cannot
\* encode, the process is killed): the command ends, the disk stays as it is
Fail(p) ==
    /\ process[p].pc # 0
    /\ process' = [process EXCEPT ![p] = Idle]
    /\ Returned("exception", process[p].command, FALSE, <<>>)
    /\ UNCHANGED <<context_file, sessions_file, archive_dir, archive_index,
                   domain_archive, full_archive, commands, raced>>
    /\ StepFrame

BeginSession(p) ==
    \E domain \in Names : Begin(p, "session", domain, <<>>, FALSE)

BeginDomain(p) ==
    \E domain \in Names, updates \in Updates : Begin(p, "domain", domain, updates, FALSE)

BeginArchive(p) ==
    \E domain \in Names : Begin(p, "archive", domain, <<>>, FALSE)

BeginReset(p) ==
    \E preserve_active \in BOOLEAN : Begin(p, "reset", "", <<>>, preserve_active)

\* one process, whose file operations can fail
NextFailing ==
    \/ BeginSession(1)
    \/ BeginDomain(1)
    \/ BeginArchive(1)
    \/ BeginReset(1)
    \/ Step(1)
    \/ Fail(1)

SpecFailing == Init /\ [][NextFailing]_vars

\* two processes recording sessions, their file operations interleaved
NextConcurrent ==
    \E p \in Procs :
        \/ BeginSession(p)
        \/ Step(p)

SpecConcurrent == Init /\ [][NextConcurrent]_vars

-----------------------------------------------------------------------------
(* What the properties below talk about *)

\* the document a command finds: the file's, or the default when there is none
Persisted == load_context(Disk)

Memory == Persisted.working_memory

\* the step runs the command `command`
Ran(command) == commands' = commands + 1 /\ result'.command = command

\* the live record is the collapsed form archive_domain writes
IsCollapsed(record) ==
    /\ DOMAIN record = {"status", "archived_date", "archive_file"}
    /\ record.status = "archived"

\* the fields of a domain's full record
RichFields ==
    {"status", "priority", "critical_facts", "constraints", "decisions_made",
     "files_created"}

\* the names of the index lines a step appends, in order
Appended ==
    [ i \in 1 .. (Len(archive_index') - Len(archive_index)) |->
          archive_index'[Len(archive_index) + i].name ]

\* the names of the items of a domain map that satisfy Test, in order
NamesWhere(items, Test(_)) ==
    LET kept == SelectSeq(items, Test)
    IN  [ i \in DOMAIN kept |-> kept[i].name ]

Range(seq) == { seq[i] : i \in DOMAIN seq }

-----------------------------------------------------------------------------
\* C1: in every reachable state the persisted working_memory.session_count
\* equals the number of lines of SESSIONS.jsonl.
C1_CountEqualsLogLines == Memory.session_count = Len(sessions_file)

\* C2: archiveDomain(x) with x present leaves domains[x] with exactly the
\* fields status (= "archived"), archived_date and archive_file, and the data
\* field of the archive file named by archive_file is the record domains[x]
\* held before the call; with x absent no persisted file changes.
C2_ArchivalCollapse ==
    [][ Ran("archive") =>
          LET x      == result'.domain
              before == Memory.domains
              after  == Memory'.domains
          IN  IF Has(before, x)
              THEN /\ Has(after, x)
                   /\ IsCollapsed(Get(after, x))
                   /\ Get(after, x).archive_file \in DOMAIN domain_archive'
                   /\ domain_archive'[Get(after, x).archive_file].data = Get(before, x)
              ELSE UNCHANGED <<context_file, sessions_file, handoff_file,
                               archive_index, domain_archive, full_archive>> ]_vars

\* C2 witness: an archive command has collapsed a domain whose full record is
\* now the data of its archive file.
C2_Witness ==
    /\ result.command = "archive"
    /\ Has(Memory.domains, result.domain)
    /\ IsCollapsed(Get(Memory.domains, result.domain))
    /\ RichFields \subseteq
           DOMAIN domain_archive[Get(Memory.domains, result.domain).archive_file].data

\* C3: reset with preserveActive = true on a document whose active_domain is
\* x leaves a document whose domains hold only x (if x was in the old map),
\* with the record it had, whose active_domain is x, whose project block is
\* the old one and whose session_count is the old one.
C3_ResetPreservation ==
    [][ (Ran("reset") /\ result'.flag /\ Memory.active_domain # "") =>
          LET x == Memory.active_domain
          IN  /\ Memory'.domains =
                     (IF Has(Memory.domains, x)
                      THEN <<[name |-> x, data |-> Get(Memory.domains, x)]>>
                      ELSE <<>>)
              /\ Memory'.active_domain = x
              /\ Persisted'.project = Persisted.project
              /\ Memory'.session_count = Memory.session_count ]_vars

\* C3 witness: a preserving reset, on a later day than the project's start and
\* after a session, left exactly the active domain, taken out of a map of two.
C3_Witness ==
    /\ result.command = "reset"
    /\ result.flag
    /\ Memory.active_domain # ""
    /\ Keys(Memory.domains) = {Memory.active_domain}
    /\ Memory.session_count \in DOMAIN full_archive
    /\ Len(full_archive[Memory.session_count].working_memory.domains) = 2

\* C3 witness, second case: the project block that was kept is not the one a
\* fresh default document would have got on the day of the reset.
C3_WitnessProject ==
    /\ result.command = "reset"
    /\ result.flag
    /\ Memory.active_domain # ""
    /\ Persisted.project.start_date # Persisted.context_health.last_reset

\* C4: every domain whose live status is "archived" has an archive file and
\* an index entry for its name.
C4_ArchivedHaveFileAndIndex ==
    \A i \in DOMAIN Memory.domains :
        StatusOf(Memory.domains[i].data) = "archived" =>
            /\ \E file \in DOMAIN domain_archive : file.name = Memory.domains[i].name
            /\ \E j \in DOMAIN archive_index :
                   archive_index[j].name = Memory.domains[i].name

\* C4, amended: every domain whose live record carries an archive_file, which
\* only archive_domain writes, has that file in the archive directory and an
\* index entry naming the domain and the file.
C4_CollapsedHaveFileAndIndex ==
    \A i \in DOMAIN Memory.domains :
        "archive_file" \in DOMAIN Memory.domains[i].data =>
            /\ Memory.domains[i].data.archive_file \in DOMAIN domain_archive
            /\ Memory.domains[i].data.archive_file.name = Memory.domains[i].name
            /\ \E j \in DOMAIN archive_index :
                   /\ archive_index[j].name = Memory.domains[i].name
                   /\ archive_index[j].file = Memory.domains[i].data.archive_file

\* C4 witness: a collapsed domain that has since been carried through a reset.
C4_Witness ==
    /\ result.command = "reset"
    /\ \E i \in DOMAIN Memory.domains :
           "archive_file" \in DOMAIN Memory.domains[i].data

\* C5: for every domain whose live record is the collapsed form, the data of
\* the archive file named by its archive_file is the full record, with all
\* the rich fields, not a collapsed stub.
C5_ArchiveHoldsFullRecord ==
    \A i \in DOMAIN Memory.domains :
        IsCollapsed(Memory.domains[i].data) =>
            /\ Memory.domains[i].data.archive_file \in DOMAIN domain_archive
            /\ RichFields \subseteq
                   DOMAIN domain_archive[Memory.domains[i].data.archive_file].data

\* C6: recordSession increments session_count by exactly 1, returns the new
\* value, appends exactly one line to the log, whose session field is that
\* value, and sets last_session to it; on a fresh project it returns 1.
C6_SessionCounts ==
    [][ Ran("session") =>
          /\ Memory'.session_count = Memory.session_count + 1
          /\ result'.value = <<Memory'.session_count>>
          /\ Len(sessions_file') = Len(sessions_file) + 1
          /\ SubSeq(sessions_file', 1, Len(sessions_file)) = sessions_file
          /\ sessions_file'[Len(sessions_file')].session = Memory'.session_count
          /\ Memory'.last_session = Memory'.session_count
          /\ (context_file = <<>> => result'.value = <<1>>) ]_vars

\* C6 witness: the second of two recorded sessions returned 2 and the log has
\* two lines.
C6_Witness ==
    /\ result.command = "session"
    /\ result.value = <<2>>
    /\ Memory.session_count = 2
    /\ Len(sessions_file) = 2

\* C7: no operation decreases the persisted session_count.
C7_CountNeverDecreases ==
    [][ Memory'.session_count >= Memory.session_count ]_vars

\* C8: compress(aggressive = true) archives every domain other than the one
\* named by active_domain and never that one; compress(aggressive = false)
\* archives exactly the domains whose status is "inactive" and leaves every
\* other record unchanged.
C8_CompressSparesActive ==
    [][ Ran("compress") =>
          LET before == Memory.domains
              active == Memory.active_domain
              NotActive(item) == item.name # active
              Inactive(item)  == StatusOf(item.data) = "inactive"
          IN  IF result'.flag
              THEN Range(Appended) = Range(NamesWhere(before, NotActive))
              ELSE /\ Range(Appended) = Range(NamesWhere(before, Inactive))
                   /\ \A i \in DOMAIN before :
                          ~Inactive(before[i]) =>
                              /\ Has(Memory'.domains, before[i].name)
                              /\ Get(Memory'.domains, before[i].name) = before[i].data ]_vars

\* C8, amended: compress(aggressive = true) archives, once each and in the
\* order of the domain map, every domain other than the one named by
\* active_domain, and that one exactly when its status is "inactive";
\* compress(aggressive = false) archives exactly the domains whose status is
\* "inactive" and leaves every other record unchanged. Archiving writes the
\* domain's archive file of the day and appends its index line.
C8_CompressArchives ==
    [][ Ran("compress") =>
          LET before == Memory.domains
              active == Memory.active_domain
              Inactive(item) == StatusOf(item.data) = "inactive"
              Swept(item)    == item.name # active \/ Inactive(item)
          IN  /\ \A x \in Range(Appended) : [name |-> x, date |-> now] \in DOMAIN domain_archive'
              /\ IF result'.flag
                 THEN Appended = NamesWhere(before, Swept)
                 ELSE /\ Appended = NamesWhere(before, Inactive)
                      /\ \A i \in DOMAIN before :
                             IF Inactive(before[i])
                             THEN IsCollapsed(Get(Memory'.domains, before[i].name))
                             ELSE /\ Has(Memory'.domains, before[i].name)
                                  /\ Get(Memory'.domains, before[i].name) = before[i].data ]_vars

\* C8 witness: an aggressive compress archived two domains, the active one,
\* whose status was "inactive", among them.
C8_Witness ==
    /\ result.command = "compress"
    /\ result.flag
    /\ Len(archive_index) = 2
    /\ Memory.active_domain # ""
    /\ [name |-> Memory.active_domain, date |-> now] \in DOMAIN domain_archive
    /\ domain_archive[[name |-> Memory.active_domain, date |-> now]].data.status = "inactive"

\* C9: the persisted size_kb is the size of the persisted document, and
\* compression_enabled is true whenever that size exceeds 80% of the limit.
C9_SizeIsCurrent ==
    context_file # <<>> =>
        /\ Persisted.context_health.size_kb = RoundKb(JsonLen(Persisted))
        /\ (ApproachingLimit(JsonLen(Persisted), Persisted.context_health.size_limit_kb)
                => Persisted.context_health.compression_enabled)

\* C10: updateDomain(name, ...) sets active_domain to name and every other
\* operation leaves the persisted active_domain as it was.
C10_OnlyUpdateChangesActive ==
    [][ /\ Ran("domain") => Memory'.active_domain = result'.domain
        /\ (commands' = commands + 1 /\ result'.command # "domain") =>
               Memory'.active_domain = Memory.active_domain ]_vars

\* C10, amended: updateDomain(name, ...) sets active_domain to name; init and
\* reset with preserveActive = false set it to empty; every other operation
\* (recordSession, archiveDomain, compress, reset with preserveActive = true,
\* handoff, stats, status) leaves it as it was.
C10_ActiveDomainChanges ==
    [][ commands' = commands + 1 =>
          Memory'.active_domain =
              (CASE result'.command = "domain" -> result'.domain
                 [] result'.command = "init" -> ""
                 [] result'.command = "reset" /\ ~result'.flag -> ""
                 [] OTHER -> Memory.active_domain) ]_vars

\* C10 witness: a reset without preservation emptied an active_domain that the
\* snapshot it took shows to have been set.
C10_Witness ==
    /\ result.command = "reset"
    /\ ~result.flag
    /\ Memory.active_domain = ""
    /\ Memory.session_count \in DOMAIN full_archive
    /\ full_archive[Memory.session_count].working_memory.active_domain # ""

-----------------------------------------------------------------------------
\* C13: the document a reset supersedes is never lost: the reset stores it
\* verbatim as the snapshot named by its session counter, and every snapshot
\* stays in the archive directory, as it was written, whatever follows.
C13_SnapshotsKept ==
    [][ /\ Ran("reset") =>
               /\ Memory.session_count \in DOMAIN full_archive'
               /\ full_archive'[Memory.session_count] = Persisted
        /\ \A n \in DOMAIN full_archive :
               /\ n \in DOMAIN full_archive'
               /\ full_archive'[n] = full_archive[n] ]_vars

\* C14: init, run against a project root that already has a
\* PROJECT_CONTEXT.json, leaves that document unchanged.
C14_InitKeepsDocument ==
    [][ (Ran("init") /\ context_file # <<>>) => context_file' = context_file ]_vars

-----------------------------------------------------------------------------
\* the document of the example: domains = {"a": active, "b": inactive} and
\* active_domain = "a"
ExampleDomains ==
    /\ Keys(Memory.domains) = {"a", "b"}
    /\ Memory.active_domain = "a"
    /\ StatusOf(Get(Memory.domains, "a")) = "active"
    /\ StatusOf(Get(Memory.domains, "b")) = "inactive"

\* C16: compress(aggressive = true) on domains = {"a": active, "b": inactive}
\* with active_domain = "a" archives both "a" and "b": afterwards both live
\* records are collapsed.
C16_ArchivesBoth ==
    [][ (Ran("compress") /\ result'.flag /\ ExampleDomains) =>
          /\ Has(Memory'.domains, "a") /\ IsCollapsed(Get(Memory'.domains, "a"))
          /\ Has(Memory'.domains, "b") /\ IsCollapsed(Get(Memory'.domains, "b")) ]_vars

\* C16, amended: compress(aggressive = true) on that document archives "b"
\* only: b's full record goes to its archive file of the day, one index line
\* (for "b") is appended, and "a", the active domain, keeps its live record
\* unchanged and stays the active domain; "b" is collapsed wherever the
\* resulting document still lists it.
C16_ArchivesInactiveOnly ==
    [][ (Ran("compress") /\ result'.flag /\ ExampleDomains) =>
          /\ Appended = <<"b">>
          /\ [name |-> "b", date |-> now] \in DOMAIN domain_archive'
          /\ domain_archive'[[name |-> "b", date |-> now]].data = Get(Memory.domains, "b")
          /\ Memory'.active_domain = "a"
          /\ Has(Memory'.domains, "a")
          /\ Get(Memory'.domains, "a") = Get(Memory.domains, "a")
          /\ Has(Memory'.domains, "b") => IsCollapsed(Get(Memory'.domains, "b")) ]_vars

\* C16 witness: after an aggressive compress "a" is the active domain with
\* its full record and status "active", and "b" alone was archived.
C16_Witness ==
    /\ result.command = "compress"
    /\ result.flag
    /\ Memory.active_domain = "a"
    /\ Keys(Memory.domains) = {"a", "b"}
    /\ DOMAIN Get(Memory.domains, "a") = RichFields
    /\ StatusOf(Get(Memory.domains, "a")) = "active"
    /\ IsCollapsed(Get(Memory.domains, "b"))
    /\ Len(archive_index) = 1
    /\ archive_index[1].name = "b"

-----------------------------------------------------------------------------
\* C17: compress decides on the document as its archivals left it: it warns
\* exactly when that persisted document exceeds size_limit_kb, resets (keeping
\* the active domain) exactly when it warns and aggressive is set, and
\* otherwise leaves the archived document in place.
C17_DecidesOnArchivedDocument ==
    [][ Ran("compress") =>
          LET swept == CompressLoop(Manager(Disk), Memory.domains, Persisted, result'.flag)
              post  == load_context(swept)
              over  == RoundKb(JsonLen(post)) > post.context_health.size_limit_kb * 100
              final == IF over /\ result'.flag THEN reset_context(swept, TRUE) ELSE swept
          IN  /\ (result'.value # <<>>) <=> over
              /\ context_file' = final.context_file
              /\ full_archive' = final.full_archive ]_vars

-----------------------------------------------------------------------------
\* the record carries the six fields of a full record
IsActiveForm(record) == DOMAIN record = RichFields

\* C18: after every step each record under domains is either a full record
\* (status, priority, critical_facts, constraints, decisions_made,
\* files_created) or a collapsed one (exactly status = "archived",
\* archived_date, archive_file), and a name whose record was collapsed before
\* the step has, if the step keeps it, a collapsed record after it.
C18_TwoFormsOneWay ==
    [][ /\ \A i \in DOMAIN Memory'.domains :
               \/ IsActiveForm(Memory'.domains[i].data)
               \/ IsCollapsed(Memory'.domains[i].data)
        /\ \A i \in DOMAIN Memory.domains :
               (IsCollapsed(Memory.domains[i].data) /\ Has(Memory'.domains, Memory.domains[i].name))
                   => IsCollapsed(Get(Memory'.domains, Memory.domains[i].name)) ]_vars

-----------------------------------------------------------------------------
\* C20: in every reachable state active_domain is empty or names a record of
\* the domain map of the same document.
C20_ActiveDomainIsListed ==
    \/ Memory.active_domain = ""
    \/ Has(Memory.domains, Memory.active_domain)

\* C20 witness: a reset that did not preserve the active domain replaced a
\* document that had one: the fresh document has neither record nor pointer.
C20_Witness ==
    /\ result.command = "reset"
    /\ ~result.flag
    /\ Memory.active_domain = ""
    /\ Memory.domains = <<>>
    /\ \E n \in DOMAIN full_archive :
           /\ full_archive[n].working_memory.active_domain # ""
           /\ Has(full_archive[n].working_memory.domains,
                  full_archive[n].working_memory.active_domain)

-----------------------------------------------------------------------------
\* C15: session, domain or archive without --domain, and handoff without
\* --next-task, leave the context document, the session log, the hand-off
\* file, the archive directory, the archive index and the archive files
\* exactly as they were: nothing is created and nothing is changed.
C15_MissingArgumentNoEffect ==
    [][ (commands' = commands + 1 /\ result'.command = "error") =>
            UNCHANGED <<context_file, sessions_file, handoff_file, archive_dir,
                        archive_index, domain_archive, full_archive>> ]_vars

-----------------------------------------------------------------------------
\* C11: when a file operation of a mutating command fails, whichever it is,
\* PROJECT_CONTEXT.json is left holding a whole document: the one the command
\* loaded, or the one it was saving, never an empty or half-written file.
C11_FailureKeepsDocument ==
    [][ \A p \in Procs :
            Fail(p) =>
                /\ Intact(context_file')
                /\ \/ context_file' = process[p].seen
                   \/ context_file' = Planned(p).context_file ]_vars

-----------------------------------------------------------------------------
\* the file operations the command of process p has completed
Done(p) == Range(SubSeq(Program(process[p]), 1, process[p].pc - 1))

\* C12: while archive_domain is under way, as long as it has not begun to
\* save the document the persisted document is the one it loaded, with the
\* domain's record as it was, so a failure there leaves the domain live; once
\* it has begun to save, the archive file holding that record and the index
\* line naming it are already on disk; and in every state each collapsed
\* record of the persisted document names an archive file that exists.
C12_ArchiveBeforeCollapse ==
    /\ \A p \in Procs :
           (process[p].pc # 0 /\ process[p].command = "archive") =>
               LET x      == process[p].domain
                   loaded == load_context(Seen(p)).working_memory.domains
                   file   == ArchiveFileName(x)
               IN  IF "open" \notin Done(p)
                   THEN /\ context_file = process[p].seen
                        /\ Has(Memory.domains, x)
                        /\ Get(Memory.domains, x) = Get(loaded, x)
                   ELSE /\ {"write_archive", "append_index"} \subseteq Done(p)
                        /\ file \in DOMAIN domain_archive
                        /\ domain_archive[file].data = Get(loaded, x)
                        /\ \E i \in DOMAIN archive_index :
                               /\ archive_index[i].name = x
                               /\ archive_index[i].file = file
    /\ Intact(context_file) =>
           \A i \in DOMAIN Memory.domains :
               IsCollapsed(Memory.domains[i].data) =>
                   Memory.domains[i].data.archive_file \in DOMAIN domain_archive

\* C12 witness: archive_domain failed after writing the archive file and
\* before appending the index line: the archive file is an orphan and the
\* domain's record is still the full one.
C12_Witness ==
    /\ result.command = "exception"
    /\ result.domain = "archive"
    /\ process[1].pc = 0
    /\ archive_index = <<>>
    /\ Intact(context_file)
    /\ \E i \in DOMAIN Memory.domains :
           /\ IsActiveForm(Memory.domains[i].data)
           /\ ArchiveFileName(Memory.domains[i].name) \in DOMAIN domain_archive
           /\ domain_archive[ArchiveFileName(Memory.domains[i].name)].data
                  = Memory.domains[i].data

-----------------------------------------------------------------------------
\* every process has finished its command
AllIdle == \A p \in Procs : process[p].pc = 0

\* two lines of SESSIONS.jsonl carry the same session number
DuplicateSession ==
    \E i, j \in DOMAIN sessions_file :
        i < j /\ sessions_file[i].session = sessions_file[j].session

\* C19: as long as every recordSession has run with no other under way, the
\* session numbers of the log are all different and, once the calls have
\* finished, session_count equals the number of log lines; a state with a
\* repeated number and a count below the number of lines (the witness) is
\* reached only through interleaved calls.
C19_SequentialSessionsAreSafe ==
    ~raced =>
        /\ ~DuplicateSession
        /\ AllIdle => Memory.session_count = Len(sessions_file)

\* C19 witness: two interleaved recordSession calls have finished, two log
\* lines carry the same session number and session_count is smaller than the
\* number of log lines.
C19_Witness ==
    /\ raced
    /\ AllIdle
    /\ Intact(context_file)
    /\ DuplicateSession
    /\ Memory.session_count < Len(sessions_file)

=============================================================================
